---- MODULE Spec2Model ----
(***************************************************************************)
(* bsl-track-server: the BSL measurement routes (bsl_track_server/bsl.py). *)
(*                                                                         *)
(* A request body is validated by BslMeasurementSchema and handed to the   *)
(* classmethods of BslMeasurementModel, which work on the single table     *)
(* "bsls".  Spec runs the five routes one request at a time; SpecConc runs *)
(* requests of several sessions concurrently, with update() split at the   *)
(* point where its SELECT has returned and its COMMIT has not yet run.     *)
(*                                                                         *)
(* A Decimal is modelled as an integer number of hundredths (5.5 is 550,   *)
(* 5.55 is 555), the id None as Null, an omitted body field as Missing.    *)
(***************************************************************************)
EXTENDS Integers, FiniteSets, Sequences, TLC

VARIABLES
    store,      \* the rows of table "bsls"
    last,       \* the request handled last and its response
    created,    \* history: creations whose id no later write has touched
    enforced,   \* whether the installed pydantic applies the condecimal() metadata
    sessions    \* SpecConc: per session, the position inside its request

vars == <<store, last, created, enforced, sessions>>

-----------------------------------------------------------------------------
\* Bounds of the model.

\* Ids the store can assign (and that requests can name).
MaxId == 2

\* Number of concurrent sessions of SpecConc.
NumSessions == 2

-----------------------------------------------------------------------------
\* Values of the program.

\* id: int | None = None
Null == 0

\* condecimal(ge=0, ...)
ge == 0

\* condecimal(..., le=100, ...)
le == 100

\* status.HTTP_404_NOT_FOUND
HTTP_404_NOT_FOUND == 404

\* status.HTTP_201_CREATED
HTTP_201_CREATED == 201

\* class MeasurementTypes(Enum)
MeasurementTypes == {"fasting", "random"}

\* A body field that the request leaves out.
Missing == "missing"

Ids == 1..MaxId

\* The request bodies the model sends (without the id, which is enumerated
\* separately): two in-range values with one decimal digit, a value with two
\* decimal digits, a value above the range with the type left out, an
\* unknown type, an omitted date and an omitted time.
Fields ==
    { [bsl |-> 550,   type |-> "fasting",      date |-> "2024-09-03", time |-> "08:00"],
      [bsl |-> 0,     type |-> "random",       date |-> "2024-09-04", time |-> "18:04"],
      [bsl |-> 555,   type |-> "random",       date |-> "2024-09-03", time |-> "18:04"],
      [bsl |-> 10010, type |-> Missing,        date |-> "2024-09-04", time |-> "08:00"],
      [bsl |-> 550,   type |-> "postprandial", date |-> "2024-09-03", time |-> "08:00"],
      [bsl |-> 0,     type |-> "fasting",      date |-> Missing,      time |-> "08:00"],
      [bsl |-> 0,     type |-> "fasting",      date |-> "2024-09-03", time |-> Missing] }

WithId(f, i) ==
    [id |-> i, bsl |-> f.bsl, type |-> f.type, date |-> f.date, time |-> f.time]

Bodies == { WithId(f, i) : f \in Fields, i \in Ids \cup {Null} }

NoBody == [id |-> Null, bsl |-> 0, type |-> Missing, date |-> Missing, time |-> Missing]

-----------------------------------------------------------------------------
\* Errors.

NoError == [error |-> "", message |-> ""]

\* The tag of a DatabaseError raised without error=...
DefaultError == "DatabaseError"

\* DatabaseError(error=..., message=...)
DatabaseError(error, message) == [error |-> error, message |-> message]

Raise(e, db) == [raised |-> TRUE, error |-> e, db |-> db, record |-> {}]

Return(db, records) == [raised |-> FALSE, error |-> NoError, db |-> db, record |-> records]

-----------------------------------------------------------------------------
\* BslMeasurementSchema.

\* multiple_of=Decimal(0.1): pydantic accepts v when (v / multiple_of) % 1 = 0.
\* Decimal(0.1) is built from the float 0.1, that is
\* 0.1000000000000000055511151231257827021181583404541015625, and at
\* decimal's 28 digits no non-zero number of hundredths divides by it to a
\* whole number (5.5 / Decimal(0.1) = 54.99999999999999694688668228).
MultipleOfFloatTenth(v) == v = 0

\* decimal_places=1
DecimalPlacesOk(v) == v % 10 = 0

\* The condecimal() constraints on bsl.  condecimal() returns
\* Annotated[Decimal, ...]; the schema nests it as the metadata of another
\* Annotated[Decimal, ...], where pydantic may apply it (applied) or skip it
\* as metadata it does not know.
BslOk(applied, v) ==
    applied => /\ v >= ge * 100
               /\ v <= le * 100
               /\ MultipleOfFloatTenth(v)
               /\ DecimalPlacesOk(v)

\* The fields of a body that fail validation.
FieldErrors(applied, body) ==
    {f \in {"bsl", "type", "date", "time"} :
        \/ f = "bsl"  /\ ~BslOk(applied, body.bsl)
        \/ f = "type" /\ body.type \notin MeasurementTypes \cup {Missing}
        \/ f = "date" /\ body.date = Missing
        \/ f = "time" /\ body.time = Missing}

\* The schema object of a body: type defaults to MeasurementTypes.FASTING.
Schema(body) ==
    [body EXCEPT !.type = IF body.type = Missing THEN "fasting" ELSE body.type]

Validate(applied, body) ==
    LET errs == FieldErrors(applied, body)
    IN  [ok |-> errs = {}, errors |-> errs, value |-> Schema(body)]

-----------------------------------------------------------------------------
\* BslMeasurementModel.

IdsOf(db) == {r.id : r \in db}

\* A store that hands out ids without regard to the rows it holds.
NextIds_reused(db) == Ids

\* id: primary key, autoincrement: the ids the store may give a new row.

NextIds(db) == {i \in Ids : i \notin IdsOf(db)}

list(db) == Return(db, db)

\* A read() whose SELECT lacks the WHERE clause.
read_first(db, measurement_id) ==
    IF db = {}
    THEN Raise(DatabaseError("MeasurementNotFound", "No measurement with the given id"), db)
    ELSE Return(db, {CHOOSE r \in db : \A q \in db : r.id <= q.id})

read(db, measurement_id) ==
    LET record == {r \in db : r.id = measurement_id}
    IN  IF record = {}
        THEN Raise(DatabaseError("MeasurementNotFound", "No measurement with the given id"), db)
        ELSE Return(db, record)

\* A create() without the check that the id is None.
create_with_id(db, measurement, new_id) ==
    LET record == [measurement EXCEPT !.id = IF measurement.id = Null THEN new_id ELSE measurement.id]
    IN  Return(db \cup {record}, {record})

\* new_id is the id the store assigns on INSERT; db.refresh(record) reads the
\* row back.
create(db, measurement, new_id) ==
    IF measurement.id # Null
    THEN Raise(DatabaseError(DefaultError, "ID should be null for new measurements"), db)
    ELSE LET record == [measurement EXCEPT !.id = new_id]
         IN  Return(db \cup {record}, {record})

\* An update() that patches bsl and leaves the other attributes.
update_bsl_only(db, measurement) ==
    IF measurement.id = Null
    THEN Raise(DatabaseError(DefaultError, "ID should not be null for existing measurements"), db)
    ELSE LET record == {r \in db : r.id = measurement.id}
         IN  IF record = {}
             THEN Raise(DatabaseError(DefaultError, "Measurement not found"), db)
             ELSE LET new == {[r EXCEPT !.bsl = measurement.bsl] : r \in record}
                  IN  Return((db \ record) \cup new, new)

\* update(), up to its SELECT: the id check, the SELECT and the existence check.
update_select(db, measurement) ==
    IF measurement.id = Null
    THEN Raise(DatabaseError(DefaultError, "ID should not be null for existing measurements"), db)
    ELSE LET record == {r \in db : r.id = measurement.id}
         IN  IF record = {}
             THEN Raise(DatabaseError(DefaultError, "Measurement not found"), db)
             ELSE Return(db, record)

\* The error of a flush whose UPDATE matches no row.
StaleDataError ==
    [error |-> "StaleDataError",
     message |-> "UPDATE statement on table 'bsls' expected to update 1 row(s); 0 were matched"]

\* update(), from its setattr loop on: record is the row the SELECT loaded.
\* The commit flushes the attributes whose value changed as one
\* UPDATE bsls SET ... WHERE id = <the loaded id>; with no attribute changed
\* it sends no statement.
update_commit(db, measurement, record) ==
    LET loaded == CHOOSE r \in record : TRUE
        rows == {r \in db : r.id = loaded.id}
        Set(r) == [id   |-> r.id,
                   bsl  |-> IF measurement.bsl  # loaded.bsl  THEN measurement.bsl  ELSE r.bsl,
                   type |-> IF measurement.type # loaded.type THEN measurement.type ELSE r.type,
                   date |-> IF measurement.date # loaded.date THEN measurement.date ELSE r.date,
                   time |-> IF measurement.time # loaded.time THEN measurement.time ELSE r.time]
    IN  IF measurement = loaded
        THEN Return(db, {measurement})
        ELSE IF rows = {}
        THEN Raise(StaleDataError, db)
        ELSE Return((db \ rows) \cup {Set(r) : r \in rows}, {Set(r) : r \in rows})

update(db, measurement) ==
    LET selected == update_select(db, measurement)
    IN  IF selected.raised
        THEN selected
        ELSE update_commit(db, measurement, selected.record)

\* A delete() whose DELETE ignores the id it is given.
delete_first(db, measurement_id) ==
    IF db = {} THEN Return(db, {})
    ELSE Return(db \ {CHOOSE r \in db : \A q \in db : r.id <= q.id}, {})

delete(db, measurement_id) ==
    Return({r \in db : r.id # measurement_id}, {})

-----------------------------------------------------------------------------
\* The routes, one request at a time.

Response(op, id, body, status, error, result) ==
    [op |-> op, id |-> id, body |-> body, status |-> status, error |-> error, result |-> result]

\* Creations that a write to id i leaves untouched.
Untouched(i) == {c \in created : c.record.id # i}

\* The answer to a body that fails validation: 422, before the route runs.
Unprocessable(op, body) ==
    /\ last' = Response(op, Null, body, 422,
                        [error |-> "RequestValidationError", message |-> "body"], {})
    /\ UNCHANGED <<store, created>>

list_measurements ==
    LET result == list(store)
    IN  /\ last' = Response("LIST", Null, NoBody, 200, NoError, result.record)
        /\ UNCHANGED <<store, created, enforced, sessions>>

get_measurement(measurement_id) ==
    LET result == read(store, measurement_id)
    IN  /\ last' = IF result.raised
                   THEN Response("GET", measurement_id, NoBody, HTTP_404_NOT_FOUND,
                                 result.error, {})
                   ELSE Response("GET", measurement_id, NoBody, 200, NoError, result.record)
        /\ UNCHANGED <<store, created, enforced, sessions>>

\* new_id is the id the store assigns, Null for a request that inserts nothing.
create_measurement(body, new_id) ==
    LET v == Validate(enforced, body)
        result == create(store, v.value, new_id)
    IN  /\ (new_id = Null) <=> (~v.ok \/ result.raised)
        /\ IF ~v.ok
           THEN Unprocessable("POST", body)
           ELSE IF result.raised
           THEN /\ last' = Response("POST", Null, body, 500, result.error, {})
                /\ UNCHANGED <<store, created>>
           ELSE /\ store' = result.db
                /\ last' = Response("POST", Null, body, HTTP_201_CREATED, NoError, result.record)
                /\ created' = created \cup
                       {[measurement |-> v.value, record |-> r] : r \in result.record}
        /\ UNCHANGED <<enforced, sessions>>

update_measurement(body) ==
    LET v == Validate(enforced, body)
        result == update(store, v.value)
    IN  /\ IF ~v.ok
           THEN Unprocessable("PUT", body)
           ELSE IF result.raised
           THEN /\ last' = Response("PUT", Null, body, HTTP_404_NOT_FOUND, result.error, {})
                /\ UNCHANGED <<store, created>>
           ELSE /\ store' = result.db
                /\ last' = Response("PUT", Null, body, HTTP_201_CREATED, NoError, result.record)
                /\ created' = Untouched(body.id)
        /\ UNCHANGED <<enforced, sessions>>

delete_measurement(measurement_id) ==
    LET result == delete(store, measurement_id)
    IN  /\ store' = result.db
        /\ last' = Response("DELETE", measurement_id, NoBody, 200, NoError, {})
        /\ created' = Untouched(measurement_id)
        /\ UNCHANGED <<enforced, sessions>>

NoSession ==
    [pc |-> "idle", measurement |-> NoBody, record |-> {},
     op |-> "", id |-> Null, ok |-> FALSE, error |-> NoError]

Init ==
    /\ store = {}
    /\ last = Response("", Null, NoBody, 0, NoError, {})
    /\ created = {}
    /\ enforced \in BOOLEAN
    /\ sessions = [s \in 1..NumSessions |-> NoSession]

Next ==
    \/ list_measurements
    \/ \E i \in Ids : get_measurement(i)
    \/ \E body \in Bodies : \E new_id \in NextIds(store) \cup {Null} :
           create_measurement(body, new_id)
    \/ \E body \in Bodies : update_measurement(body)
    \/ \E i \in Ids : delete_measurement(i)

Spec == Init /\ [][Next]_vars

-----------------------------------------------------------------------------
\* The routes under concurrent requests: each session has its own database
\* session, and another session's statement may commit between the SELECT
\* of update() and its COMMIT.  create() and delete() send one statement.

Sessions == 1..NumSessions

\* The bodies the concurrent sessions send: the in-range measurements that
\* name their type.
ConcBodies ==
    {b \in Bodies : b.bsl \in {0, 550} /\ b.type # Missing /\ FieldErrors(FALSE, b) = {}}

Idle(op, id, ok, error) ==
    [pc |-> "idle", measurement |-> NoBody, record |-> {},
     op |-> op, id |-> id, ok |-> ok, error |-> error]

begin_update(s, body) ==
    LET v == Validate(enforced, body)
        selected == update_select(store, v.value)
    IN  /\ sessions[s].pc = "idle"
        /\ sessions' = [sessions EXCEPT ![s] =
               IF ~v.ok
               THEN Idle("PUT", body.id, FALSE,
                         [error |-> "RequestValidationError", message |-> "body"])
               ELSE IF selected.raised
               THEN Idle("PUT", body.id, FALSE, selected.error)
               ELSE [pc |-> "selected", measurement |-> v.value, record |-> selected.record,
                     op |-> "PUT", id |-> body.id, ok |-> FALSE, error |-> NoError]]
        /\ UNCHANGED <<store, last, created, enforced>>

finish_update(s) ==
    LET result == update_commit(store, sessions[s].measurement, sessions[s].record)
    IN  /\ sessions[s].pc = "selected"
        /\ store' = result.db
        /\ sessions' = [sessions EXCEPT ![s] =
               Idle("PUT", sessions[s].id, ~result.raised, result.error)]
        /\ UNCHANGED <<last, created, enforced>>

run_delete(s, measurement_id) ==
    LET result == delete(store, measurement_id)
    IN  /\ sessions[s].pc = "idle"
        /\ store' = result.db
        /\ sessions' = [sessions EXCEPT ![s] = Idle("DELETE", measurement_id, TRUE, NoError)]
        /\ UNCHANGED <<last, created, enforced>>

run_create(s, body, new_id) ==
    LET v == Validate(enforced, body)
        result == create(store, v.value, new_id)
    IN  /\ sessions[s].pc = "idle"
        /\ v.ok
        /\ ~result.raised
        /\ store' = result.db
        /\ sessions' = [sessions EXCEPT ![s] = Idle("POST", new_id, TRUE, NoError)]
        /\ UNCHANGED <<last, created, enforced>>

NextConc ==
    \/ \E s \in Sessions : \E body \in ConcBodies : begin_update(s, body)
    \/ \E s \in Sessions : finish_update(s)
    \/ \E s \in Sessions : \E i \in Ids : run_delete(s, i)
    \/ \E s \in Sessions : \E body \in ConcBodies : \E new_id \in NextIds(store) :
           run_create(s, body, new_id)

SpecConc == Init /\ [][NextConc]_vars

-----------------------------------------------------------------------------
\* Properties of the routes handled one at a time (Spec).

\* C1: a Create whose measurement carries an id fails and writes nothing: the
\* rows after the request are the rows before it, and a body that passes
\* validation is refused by create() with its "ID should be null" error,
\* which is not tagged as a missing record and leaves the route unhandled.
C1_CreateWithIdRejected ==
    [][(last'.op = "POST" /\ last'.body.id # Null) =>
          /\ store' = store
          /\ last'.status # HTTP_201_CREATED
          /\ Validate(enforced, last'.body).ok =>
                /\ last'.status = 500
                /\ last'.error.message = "ID should be null for new measurements"
                /\ last'.error.error # "MeasurementNotFound"]_vars

\* A refused POST with an id, on a store that holds rows.
C1_Witness ==
    /\ last.op = "POST"
    /\ last.body.id # Null
    /\ last.status = 500
    /\ last.error.message = "ID should be null for new measurements"
    /\ store # {}

\* C2: an Update with a null id fails with an invalid-request error, an
\* Update with an id that is not stored fails with an error tagged as a
\* missing record, and neither writes.
C2_UpdateErrorKinds ==
    [][(last'.op = "PUT" /\ Validate(enforced, last'.body).ok) =>
          /\ last'.body.id = Null =>
                /\ store' = store
                /\ last'.error # NoError
                /\ last'.error.error # "MeasurementNotFound"
          /\ (last'.body.id # Null /\ last'.body.id \notin IdsOf(store)) =>
                /\ store' = store
                /\ last'.error.error = "MeasurementNotFound"]_vars

\* C3: Delete never fails; it removes exactly the rows of its id, so deleting
\* an id that is not stored changes nothing and deleting again changes
\* nothing more; a Read of the id afterwards finds no record.
C3_DeleteIdempotent ==
    [][last'.op = "DELETE" =>
          /\ last'.status = 200
          /\ last'.error = NoError
          /\ store' = {r \in store : r.id # last'.id}
          /\ last'.id \notin IdsOf(store) => store' = store
          /\ ~delete(store', last'.id).raised
          /\ delete(store', last'.id).db = store'
          /\ read(store', last'.id).raised
          /\ read(store', last'.id).error.error = "MeasurementNotFound"]_vars

\* A Delete answered while other rows remain stored.
C3_Witness ==
    /\ last.op = "DELETE"
    /\ last.status = 200
    /\ last.id \notin IdsOf(store)
    /\ store # {}

\* C4: a successful Update with measurement m leaves exactly one row with
\* m's id, equal to m in every field, leaves the other rows alone, and
\* applying the same Update again changes nothing.
C4_UpdateOverwrites ==
    [][(last'.op = "PUT" /\ last'.status = HTTP_201_CREATED) =>
          LET m == Schema(last'.body)
          IN  /\ m.id \in IdsOf(store)
              /\ {r \in store' : r.id = m.id} = {m}
              /\ {r \in store' : r.id # m.id} = {r \in store : r.id # m.id}
              /\ last'.result = {m}
              /\ ~update(store', m).raised
              /\ update(store', m).db = store']_vars

\* A successful Update of one of two stored rows.
C4_Witness ==
    /\ last.op = "PUT"
    /\ last.status = HTTP_201_CREATED
    /\ Schema(last.body) \in store
    /\ Cardinality(store) = 2

\* C5: every stored row has a non-null id, no two rows share an id, and a
\* successful Create adds one row whose id no row stored before it had.
C5_UniqueIds ==
    [][/\ \A r \in store' : r.id # Null
       /\ \A r, q \in store' : r.id = q.id => r = q
       /\ (last'.op = "POST" /\ last'.status = HTTP_201_CREATED) =>
             /\ Cardinality(last'.result) = 1
             /\ \A r \in last'.result :
                   /\ r.id # Null
                   /\ r.id \notin IdsOf(store)
                   /\ store' = store \cup {r}]_vars

\* A successful Create into a store that already held a row.
C5_Witness ==
    /\ last.op = "POST"
    /\ last.status = HTTP_201_CREATED
    /\ Cardinality(store) = 2

\* C6: while no later write touches its id, a Read by the id a Create
\* returned yields the record the Create returned, which carries the
\* value, type, date and time of the measurement that was created.
C6_CreateThenRead ==
    \A c \in created :
        LET got == read(store, c.record.id)
        IN  /\ ~got.raised
            /\ got.record = {c.record}
            /\ c.record.id # Null
            /\ c.record.bsl = c.measurement.bsl
            /\ c.record.type = c.measurement.type
            /\ c.record.date = c.measurement.date
            /\ c.record.time = c.measurement.time
            /\ (last.op = "GET" /\ last.id = c.record.id) =>
                  /\ last.status = 200
                  /\ last.result = {c.record}

\* A GET of a created, untouched record while two rows are stored.
C6_Witness ==
    /\ last.op = "GET"
    /\ last.status = 200
    /\ \E c \in created : c.record.id = last.id
    /\ Cardinality(store) = 2

\* C7: every stored value lies in [0, 100] and is a multiple of 0.1, every
\* stored type is fasting or random; validation accepts a value exactly
\* when it is in the range and a multiple of 0.1, and a body with another
\* value is answered 422 and never written.
C7_ValidatedValues ==
    LET InRangeTenth(v) == v >= ge * 100 /\ v <= le * 100 /\ v % 10 = 0
    IN  /\ \A r \in store : InRangeTenth(r.bsl) /\ r.type \in MeasurementTypes
        /\ last.op \in {"POST", "PUT"} =>
              /\ "bsl" \in FieldErrors(enforced, last.body) <=> ~InRangeTenth(last.body.bsl)
              /\ ~InRangeTenth(last.body.bsl) => last.status = 422

\* C8: a Create that omits date or time is not refused for it, and when
\* the rest of the body is valid the record is created with a date and a
\* time.
C8_OmittedDateTimeDefaults ==
    (last.op = "POST" /\ (last.body.date = Missing \/ last.body.time = Missing)) =>
        /\ FieldErrors(enforced, last.body) \cap {"date", "time"} = {}
        /\ (last.body.id = Null /\ FieldErrors(enforced, last.body) \subseteq {"date", "time"}) =>
              /\ last.status = HTTP_201_CREATED
              /\ \A r \in last.result : r.date # Missing /\ r.time # Missing

\* C9: a 404 answers exactly a GET or PUT whose id is not stored and stems
\* from an error tagged as a missing record; an id on POST or no id on PUT
\* is an unhandled failure, not a 404.
C9_NotFoundOnly ==
    [][/\ last'.op = "GET" =>
             (last'.status = HTTP_404_NOT_FOUND <=> last'.id \notin IdsOf(store))
       /\ (last'.op = "PUT" /\ Validate(enforced, last'.body).ok) =>
             /\ last'.status = HTTP_404_NOT_FOUND <=>
                    (last'.body.id # Null /\ last'.body.id \notin IdsOf(store))
             /\ last'.body.id = Null => last'.status = 500
       /\ (last'.op = "POST" /\ Validate(enforced, last'.body).ok /\ last'.body.id # Null) =>
             last'.status = 500
       /\ last'.status = HTTP_404_NOT_FOUND =>
             last'.error.error = "MeasurementNotFound"]_vars

-----------------------------------------------------------------------------
\* Properties of concurrent requests (SpecConc).

\* C10: an Update takes effect as one atomic step: when its commit reports
\* success the record it updated is stored, and the commit brings back no
\* record that was deleted.
C10_AtomicUpdate ==
    [][\A s \in Sessions :
          (sessions[s].pc = "selected" /\ sessions'[s].pc = "idle") =>
              /\ sessions'[s].ok => sessions'[s].id \in IdsOf(store')
              /\ IdsOf(store') \subseteq IdsOf(store)]_vars

====
